---------------------------- MODULE Spec2Model ----------------------------
(***************************************************************************)
(* State-machine model of the OpenClaw dashboard server (src/server.js):   *)
(* the configuration store (validation, timestamped backups with rotation, *)
(* restore), and the watchdog (periodic health check, recovery from the    *)
(* stable snapshot).                                                       *)
(*                                                                         *)
(* Node runs every handler to its next await without interruption, so each *)
(* action below is one such run: an HTTP handler that never awaits is one  *)
(* action, the watchdog cycle is split at its three awaits of runCommand.  *)
(***************************************************************************)
EXTENDS Integers, Sequences, FiniteSets, Bags, TLC

VARIABLES
    now,        \* the wall clock in milliseconds (new Date(), Date.now())
    files,      \* the configuration directory: file name -> file text
    cycles,     \* the watchdog cycles in flight: a bag of cycle records
    out,        \* what the last step produced (HTTP response, cycle record)
    steps,      \* how many steps the run has taken
    writeLog,   \* history: the backupPath of each successful write in a row
    requests,   \* the HTTP handlers that await runCommand: a bag of records
    sockets,    \* the connected observers: socket id -> its connection record
    tails       \* the follow-processes (tail -f) that run: a bag of the ids
                \* of the sockets they were spawned for

vars == <<now, files, cycles, out, steps, writeLog, requests, sockets, tails>>

----------------------------------------------------------------------------
(* Bounds of the model.                                                    *)

\* How many steps a run of the full system takes from a start of the server.
MaxSteps == 4
\* How many times the clock advances in a run of consecutive writes.
MaxWriteTicks == 10
\* How many writes of a run of consecutive writes fall in one millisecond.
MaxWritesPerMs == 2
\* How many writes a run of consecutive writes has beyond the backup cap.
MaxExtraWrites == 1
\* The directory at start holds a full Backup Set, one short of full by at
\* most this many, or an empty one.
InitSlack == 1

\* The digits of a timestamp in a backup's name (toISOString is fixed-width):
\* enough for every time of a run.
IsoWidth == 2
\* How many steps a run of the HTTP interface takes.
MaxApiSteps == 3
\* How many watchdog cycles are in flight at once in a run of the watchdog
\* alone, and how many times its clock advances.
MaxOverlap == 2
MaxWatchTicks == 1
\* How many steps a run of the log streaming takes, and how many observers
\* are connected at once.
MaxStreamSteps == 4
MaxSockets == 2

(* Program constants.                                                      *)

\* `backups.length > 10`, `slice(10)`, `slice(0, 10)`.
MaxBackups == 10
\* The clock when the server starts: late enough for MaxBackups earlier
\* backups at distinct milliseconds.
BootTime == MaxBackups + 1
\* exec's `timeout: 30000` and the timer's period.
CommandTimeoutMs == 30000
WATCHDOG_CHECK_MS == 30000
\* A cycle awaits at most three commands (pgrep, restart, start), so it lasts
\* at most three timeouts, and the timer starts at most this many cycles
\* before the first of them ends.
CommandsPerCycle == 3
MaxInFlight == (CommandsPerCycle * CommandTimeoutMs) \div WATCHDOG_CHECK_MS + 1

----------------------------------------------------------------------------
(* JSON values, as express.json() hands them to a handler: tagged so that  *)
(* typeof and truthiness can be computed.                                  *)

Null == [t |-> "null", v |-> 0]
Num(n) == [t |-> "number", v |-> n]
Str(s) == [t |-> "string", v |-> s]
Obj(r) == [t |-> "object", v |-> r]
Arr(s) == [t |-> "array", v |-> s]
\* A number literal beyond the range of a double (1e999): JSON.parse reads it
\* as Infinity.
Infinity == [t |-> "infinity", v |-> 0]
\* A key holds `undefined` when the object lacks it.
Undefined == [t |-> "undefined", v |-> 0]

\* typeof x; typeof null is "object", typeof Infinity is "number".
TypeOf(x) ==
    CASE x.t = "null" -> "object"
      [] x.t = "array" -> "object"
      [] x.t = "infinity" -> "number"
      [] OTHER -> x.t

\* x[key] for a property read that does not throw (x is not null/undefined).
Get(x, key) ==
    IF x.t = "object" /\ key \in DOMAIN x.v THEN x.v[key] ELSE Undefined

\* !x is false
Truthy(x) ==
    CASE x.t = "null" -> FALSE
      [] x.t = "undefined" -> FALSE
      [] x.t = "number" -> x.v # 0
      [] x.t = "string" -> x.v # ""
      [] OTHER -> TRUE

Port == Num(18789)
Auth(tok) == Obj([token |-> Str(tok)])
Agents == Obj([list |-> Str("main")])

\* Two valid documents, a document whose port is 1e999, and documents breaking
\* the rules of validateConfig: no `agents`, neither `agents` nor `gateway`, a
\* gateway with neither a port nor a token.
DocA == Obj([gateway |-> Obj([port |-> Port, auth |-> Auth("tokenA-secret")]), agents |-> Agents])
DocB == Obj([gateway |-> Obj([port |-> Num(18790), auth |-> Auth("tokenB-secret")]), agents |-> Agents])
DocHugePort == Obj([gateway |-> Obj([port |-> Infinity, auth |-> Auth("tokenA-secret")]), agents |-> Agents])
DocNoAgents == Obj([gateway |-> Obj([port |-> Port, auth |-> Auth("tokenA-secret")])])
DocEmpty == Obj([other |-> Num(1)])
DocBareGateway == Obj([gateway |-> Obj([host |-> Str("h")]), agents |-> Agents])

ValidDocs == {DocA, DocB}
InvalidDocs == {DocNoAgents, DocEmpty, DocBareGateway, Null, Undefined}
\* The `config` a request body may carry.
Docs == ValidDocs \cup {DocHugePort} \cup InvalidDocs

----------------------------------------------------------------------------
(* validateConfig                                                          *)

\* The `for (const field of required)` loop, in order.
RECURSIVE MissingFields(_, _)
MissingFields(config, required) ==
    IF required = <<>> THEN <<>>
    ELSE (IF ~Truthy(Get(config, Head(required)))
          THEN <<"Missing required field: " \o Head(required)>>
          ELSE <<>>) \o MissingFields(config, Tail(required))

validateConfig(config) ==
    IF TypeOf(config) # "object" \/ config.t = "null"
    THEN [valid |-> FALSE, errors |-> <<"Config must be an object">>]
    ELSE LET gw == Get(config, "gateway")
             errors ==
                 MissingFields(config, <<"gateway", "agents">>)
                 \o (IF Truthy(gw)
                     THEN (IF TypeOf(Get(gw, "port")) # "number"
                           THEN <<"gateway.port must be a number">> ELSE <<>>)
                          \o (IF ~Truthy(Get(gw, "auth"))
                                 \/ ~Truthy(Get(Get(gw, "auth"), "token"))
                              THEN <<"gateway.auth.token is required">> ELSE <<>>)
                     ELSE <<>>)
                 \* JSON.stringify(config) cannot throw on a value that
                 \* express.json() parsed: the catch adds nothing here.
         IN [valid |-> Len(errors) = 0, errors |-> errors]

----------------------------------------------------------------------------
(* File texts.  A text is either well-formed JSON, the value it denotes    *)
(* with the layout it is written in, or malformed.                         *)

RECURSIVE Serialised(_)
\* The value JSON.stringify writes for x: a number that is not finite is
\* written as null, an object key by key.
Serialised(x) ==
    CASE x.t = "infinity" -> Null
      [] x.t = "object" -> Obj([k \in DOMAIN x.v |-> Serialised(x.v[k])])
      [] OTHER -> x

\* JSON.stringify(config, null, 2)
Stringify(config) == [layout |-> "indent2", val |-> Serialised(config)]
\* A text some other program or a person wrote.
ByHand(config) == [layout |-> "byhand", val |-> config]
Garbage == [layout |-> "malformed", val |-> Null]

\* JSON.parse(text): ok is FALSE where it throws.
Parse(text) ==
    IF text.layout = "malformed"
    THEN [ok |-> FALSE, val |-> Undefined]
    ELSE [ok |-> TRUE, val |-> text.val]

----------------------------------------------------------------------------
(* File names of the configuration directory.                              *)

RECURSIVE Digits(_)
\* The decimal digits of n, most significant first: `${Date.now()}`.
Digits(n) == IF n < 10 THEN <<n>> ELSE Digits(n \div 10) \o <<n % 10>>

RECURSIVE PadLeft(_, _)
PadLeft(ds, width) == IF Len(ds) >= width THEN ds ELSE PadLeft(<<0>> \o ds, width)

\* new Date().toISOString().replace(/[:.]/g, '-'): fixed-width digits.
IsoStamp(t) == PadLeft(Digits(t), IsoWidth)

CONFIG_PATH == [kind |-> "openclaw.json", stamp |-> <<>>]
STABLE_CONFIG_PATH == [kind |-> "openclaw.json.stable_v1", stamp |-> <<>>]
BakName(t) == [kind |-> "openclaw.json.bak.", stamp |-> IsoStamp(t)]
CorruptedName(t) == [kind |-> "openclaw.json.corrupted.", stamp |-> Digits(t)]

\* f.startsWith('openclaw.json.bak.')
IsBackup(name) == name.kind = "openclaw.json.bak."

RECURSIVE LexLess(_, _)
\* a < b as strings of digits (Array.prototype.sort's default order).
LexLess(a, b) ==
    IF b = <<>> THEN FALSE
    ELSE IF a = <<>> THEN TRUE
    ELSE IF Head(a) # Head(b) THEN Head(a) < Head(b)
    ELSE LexLess(Tail(a), Tail(b))

\* The names of one kind compare by their stamps.
NameLess(m, n) == LexLess(m.stamp, n.stamp)

RECURSIVE Insert(_, _)
\* n put at its place in a sequence that has the least name first.
Insert(seq, n) ==
    IF seq = <<>> THEN <<n>>
    ELSE IF NameLess(n, Head(seq)) THEN <<n>> \o seq
    ELSE <<Head(seq)>> \o Insert(Tail(seq), n)

RECURSIVE Sort(_)
\* names.sort(): least first.
Sort(S) ==
    IF S = {} THEN <<>>
    ELSE LET n == CHOOSE n \in S : TRUE
         IN Insert(Sort(S \ {n}), n)

\* seq.reverse()
Reverse(seq) == [i \in 1..Len(seq) |-> seq[Len(seq) + 1 - i]]

\* names.sort().reverse(): greatest first.
SortReverse(S) == Reverse(Sort(S))

\* seq.slice(from): the elements from index `from` (0-based) on.
SliceFrom(seq, from) == SubSeq(seq, from + 1, Len(seq))
\* seq.slice(0, to)
SliceTo(seq, to) == SubSeq(seq, 1, IF to < Len(seq) THEN to ELSE Len(seq))

Range(seq) == {seq[i] : i \in 1..Len(seq)}

----------------------------------------------------------------------------
(* The file system calls.                                                  *)

Exists(fs, name) == name \in DOMAIN fs

\* fs.writeFileSync(name, text)
WriteFile(fs, name, text) ==
    [n \in DOMAIN fs \cup {name} |-> IF n = name THEN text ELSE fs[n]]

\* fs.unlinkSync of every name in S
Unlink(fs, S) == [n \in DOMAIN fs \ S |-> fs[n]]

\* fs.copyFileSync(src, dst): ok is FALSE where it throws (no src); a copy
\* of a file onto itself changes nothing.
copyFileSync(fs, src, dst) ==
    IF ~Exists(fs, src) THEN [ok |-> FALSE, files |-> fs]
    ELSE [ok |-> TRUE, files |-> WriteFile(fs, dst, fs[src])]

\* The .bak. files of the directory: the Backup Set.
BackupSet(fs) == {n \in DOMAIN fs : IsBackup(n)}

\* The files under the corrupted tag.
CorruptedSet(fs) == {n \in DOMAIN fs : n.kind = "openclaw.json.corrupted."}

----------------------------------------------------------------------------
(* backupConfig and getConfigBackups                                       *)

\* The rotation deletes the newest backups, not the oldest.
backupConfigDropsNewest(fs, t) ==
    LET backupPath == BakName(t)
        copy == copyFileSync(fs, CONFIG_PATH, backupPath)
    IN IF ~copy.ok THEN [files |-> fs, path |-> <<>>]
       ELSE LET backups == SortReverse(BackupSet(copy.files))
            IN [files |-> IF Len(backups) > MaxBackups
                          THEN Unlink(copy.files,
                                      Range(SliceTo(backups, Len(backups) - MaxBackups)))
                          ELSE copy.files,
                path |-> <<backupPath>>]

\* The rotation filters on 'openclaw.json.' and so counts the files under
\* the corrupted tag, which sort before every backup in the reversed list:
\* they take places among the ten that are kept.
backupConfigCountsCorrupted(fs, t) ==
    LET backupPath == BakName(t)
        copy == copyFileSync(fs, CONFIG_PATH, backupPath)
    IN IF ~copy.ok THEN [files |-> fs, path |-> <<>>]
       ELSE LET backups == SortReverse(BackupSet(copy.files))
                taken == Cardinality(CorruptedSet(copy.files))
                kept == IF taken < MaxBackups THEN MaxBackups - taken ELSE 0
            IN [files |-> IF Len(backups) + taken > MaxBackups
                          THEN Unlink(copy.files, Range(SliceFrom(backups, kept)))
                          ELSE copy.files,
                path |-> <<backupPath>>]

\* backupConfig() at time t: the directory after it, and the path it returns
\* (<<>> for null, where the copy threw and the catch swallowed it).
backupConfig(fs, t) ==
    LET backupPath == BakName(t)
        copy == copyFileSync(fs, CONFIG_PATH, backupPath)
    IN IF ~copy.ok THEN [files |-> fs, path |-> <<>>]
       ELSE LET backups == SortReverse(BackupSet(copy.files))
            IN [files |-> IF Len(backups) > MaxBackups
                          THEN Unlink(copy.files, Range(SliceFrom(backups, MaxBackups)))
                          ELSE copy.files,
                path |-> <<backupPath>>]

\* getConfigBackups(): newest first, at most 10.
getConfigBackups(fs) == SliceTo(SortReverse(BackupSet(fs)), MaxBackups)

----------------------------------------------------------------------------
(* The HTTP handlers of the configuration store.                           *)

API_TOKEN == "dashboard-token"
\* The x-api-token header (or ?token=) of a request; "" when it has none.
Tokens == {API_TOKEN, "wrong-token", ""}

\* authMiddleware letting a request without any token through.
authMiddlewareAllowsMissing(token) == token = API_TOKEN \/ token = ""

\* authMiddleware: next() is called.
authMiddleware(token) == token = API_TOKEN

\* The output of a step: the handler or the resumed await that ran, what it
\* ran on (the document, file name or action of the request, the token
\* authMiddleware refused, the result of a command; <<>> where there is
\* none), the status code and the response body (for the watchdog: the
\* cycle's record).
NoOutput == [op |-> "none", req |-> <<>>, code |-> 0, body |-> <<>>]
Response(op, req, code, body) == [op |-> op, req |-> req, code |-> code, body |-> body]
\* authMiddleware's answer to a request that carries another token or none.
Unauthorized(op, token) ==
    Response(op, [token |-> token], 401, [error |-> "Unauthorized"])

\* app.post('/api/config') skipping the early return on a failed validation.
postConfigNoReject(fs, t, config, verifyOnly) ==
    LET validation == validateConfig(config)
    IN IF verifyOnly
       THEN [files |-> fs, code |-> 200,
             body |-> [success |-> TRUE, message |-> "Config is valid"]]
       ELSE LET backup == backupConfig(fs, t)
                written == WriteFile(backup.files, CONFIG_PATH, Stringify(config))
            IN [files |-> written, code |-> 200,
                body |-> [success |-> TRUE, backupPath |-> backup.path]]

\* The body of app.post('/api/config') behind authMiddleware, at time t:
\* the directory after it and the response.
postConfig(fs, t, config, verifyOnly) ==
    LET validation == validateConfig(config)
    IN IF ~validation.valid
       THEN [files |-> fs, code |-> 400,
             body |-> [success |-> FALSE, error |-> "Validation failed",
                       details |-> validation.errors]]
       ELSE IF verifyOnly
       THEN [files |-> fs, code |-> 200,
             body |-> [success |-> TRUE, message |-> "Config is valid"]]
       ELSE LET backup == backupConfig(fs, t)
                written == WriteFile(backup.files, CONFIG_PATH, Stringify(config))
                \* "Verify write": re-read and re-parse; a throw is the 500.
                verify == Parse(written[CONFIG_PATH])
            IN IF ~verify.ok
               THEN [files |-> written, code |-> 500,
                     body |-> [success |-> FALSE, error |-> "Unexpected token"]]
               ELSE [files |-> written, code |-> 200,
                     body |-> [success |-> TRUE, backupPath |-> backup.path]]

\* The body of app.post('/api/config/restore') behind authMiddleware.
postRestore(fs, t, backupFile) ==
    IF ~Exists(fs, backupFile)
    THEN [files |-> fs, code |-> 404, body |-> [error |-> "Backup file not found"]]
    ELSE LET backup == backupConfig(fs, t)
             copy == copyFileSync(backup.files, backupFile, CONFIG_PATH)
         IN IF ~copy.ok
            THEN [files |-> backup.files, code |-> 500,
                  body |-> [success |-> FALSE, error |-> "ENOENT"]]
            ELSE [files |-> copy.files, code |-> 200,
                  body |-> [success |-> TRUE, message |-> "Config restored"]]

\* POST /api/config
PostConfig(token, config, verifyOnly) ==
    /\ IF authMiddleware(token)
       THEN \E r \in {postConfig(files, now, config, verifyOnly)} :
              /\ files' = r.files
              /\ out' = Response("POST /api/config", [config |-> config],
                                 r.code, r.body)
       ELSE /\ files' = files
            /\ out' = Unauthorized("POST /api/config", token)
    /\ UNCHANGED <<now, cycles>>

\* The file names a restore request may carry: those of the directory, and
\* one that names no file.
NoSuchFile == [kind |-> "openclaw.json.bak.", stamp |-> IsoStamp(0)]
BackupFiles(fs) == DOMAIN fs \cup {NoSuchFile}

\* POST /api/config/restore
PostRestore(token, backupFile) ==
    /\ IF authMiddleware(token)
       THEN \E r \in {postRestore(files, now, backupFile)} :
              /\ files' = r.files
              /\ out' = Response("POST /api/config/restore",
                                 [backupFile |-> backupFile], r.code, r.body)
       ELSE /\ files' = files
            /\ out' = Unauthorized("POST /api/config/restore", token)
    /\ UNCHANGED <<now, cycles>>

----------------------------------------------------------------------------
(* The clock.  Only the order of timestamps is observable (names are       *)
(* compared, never subtracted), so the clock advances one millisecond at a *)
(* time and only past a millisecond that stamped a file.                   *)

Stamped(fs, t) == Exists(fs, BakName(t)) \/ Exists(fs, CorruptedName(t))

Tick(maxTicks) ==
    /\ now < BootTime + maxTicks
    /\ Stamped(files, now)
    /\ now' = now + 1
    /\ out' = NoOutput
    /\ UNCHANGED <<files, cycles>>

----------------------------------------------------------------------------
(* runCommand                                                              *)

\* What exec hands its callback: whether error is set, stdout, stderr and
\* error.message, each a string of characters.
ExecOutcome(error, stdout, stderr, message) ==
    [error |-> error, stdout |-> stdout, stderr |-> stderr, message |-> message]

\* pgrep found the process; found nothing (exit status 1); timed out after
\* printing; printed nothing or only white space with exit status 0.
PgrepOutcomes ==
    { ExecOutcome(FALSE, <<"4", "2", "\n">>, <<>>, <<>>),
      ExecOutcome(TRUE, <<>>, <<>>, <<"C", "o", "m", "m", "a", "n", "d", " ", "f", "a", "i", "l", "e", "d">>),
      ExecOutcome(TRUE, <<"4", "2", "\n">>, <<"k", "i", "l", "l", "e", "d">>, <<"t", "i", "m", "e", "o", "u", "t">>),
      ExecOutcome(FALSE, <<>>, <<>>, <<>>),
      ExecOutcome(FALSE, <<" ", "\n">>, <<>>, <<>>) }

\* The callback of exec in runCommand: what the promise resolves to.
runCommand(outcome) ==
    IF outcome.error
    THEN [success |-> FALSE,
          output |-> IF outcome.stderr # <<>> THEN outcome.stderr ELSE outcome.message]
    ELSE [success |-> TRUE, output |-> outcome.stdout]

IsSpace(ch) == ch \in {" ", "\n", "\t"}

RECURSIVE TrimStart(_)
TrimStart(str) ==
    IF str # <<>> /\ IsSpace(Head(str)) THEN TrimStart(Tail(str)) ELSE str

RECURSIVE TrimEnd(_)
TrimEnd(str) ==
    IF str # <<>> /\ IsSpace(str[Len(str)])
    THEN TrimEnd(SubSeq(str, 1, Len(str) - 1)) ELSE str

\* String.prototype.trim
Trim(str) == TrimEnd(TrimStart(str))

----------------------------------------------------------------------------
(* The watchdog.  A cycle record holds where one run of checkSystemHealth  *)
(* stands (pc) and what it has done so far: the recovery attempts and      *)
(* their reasons, whether the configuration probe ran, the commands it     *)
(* handed to runCommand, the events it emitted, the files it created under *)
(* the corrupted tag, and its log lines.                                   *)

\* The command of the liveness probe.
PgrepCmd == "pgrep -f \"openclaw gateway\""

IdleCycle ==
    [pc |-> "idle", attempts |-> <<>>, probedConfig |-> FALSE, cmds |-> <<>>,
     events |-> <<>>, corrupted |-> <<>>, logs |-> <<>>]

Log(c, line) == [c EXCEPT !.logs = Append(@, line)]

\* attemptRecovery without the check that the stable configuration exists.
attemptRecoveryNoStableCheck(c, fs, t, reason) ==
    LET c0 == [Log(c, "Initiating recovery") EXCEPT !.attempts = Append(@, reason)]
        backupPath == CorruptedName(t)
        keep == copyFileSync(fs, CONFIG_PATH, backupPath)
        restore == copyFileSync(keep.files, STABLE_CONFIG_PATH, CONFIG_PATH)
    IN IF ~keep.ok
       THEN [files |-> fs, cycle |-> [Log(c0, "Recovery failed") EXCEPT !.pc = "done"]]
       ELSE IF ~restore.ok
       THEN [files |-> keep.files,
             cycle |-> [Log(c0, "Recovery failed")
                          EXCEPT !.pc = "done", !.corrupted = Append(@, backupPath)]]
       ELSE [files |-> restore.files,
             cycle |-> [Log(c0, "Restored stable configuration")
                          EXCEPT !.pc = "restart",
                                 !.corrupted = Append(@, backupPath),
                                 !.cmds = Append(@, "openclaw gateway restart")]]

\* attemptRecovery copying the stable snapshot over the live file before it
\* keeps the live file under the corrupted tag.
attemptRecoveryRestoresFirst(c, fs, t, reason) ==
    LET c0 == [Log(c, "Initiating recovery") EXCEPT !.attempts = Append(@, reason)]
        backupPath == CorruptedName(t)
        restore == copyFileSync(fs, STABLE_CONFIG_PATH, CONFIG_PATH)
        keep == copyFileSync(restore.files, CONFIG_PATH, backupPath)
    IN IF ~Exists(fs, STABLE_CONFIG_PATH)
       THEN [files |-> fs,
             cycle |-> [Log(c0, "Stable config not found! Cannot recover.")
                          EXCEPT !.pc = "done"]]
       ELSE IF ~restore.ok \/ ~keep.ok
       THEN [files |-> fs, cycle |-> [Log(c0, "Recovery failed") EXCEPT !.pc = "done"]]
       ELSE [files |-> keep.files,
             cycle |-> [Log(c0, "Restored stable configuration")
                          EXCEPT !.pc = "restart",
                                 !.corrupted = Append(@, backupPath),
                                 !.cmds = Append(@, "openclaw gateway restart")]]

\* attemptRecovery with the arguments of its second copy exchanged: the live
\* file is copied over the stable snapshot.
attemptRecoveryOverwritesStable(c, fs, t, reason) ==
    LET c0 == [Log(c, "Initiating recovery") EXCEPT !.attempts = Append(@, reason)]
        backupPath == CorruptedName(t)
        keep == copyFileSync(fs, CONFIG_PATH, backupPath)
        restore == copyFileSync(keep.files, CONFIG_PATH, STABLE_CONFIG_PATH)
    IN IF ~Exists(fs, STABLE_CONFIG_PATH)
       THEN [files |-> fs,
             cycle |-> [Log(c0, "Stable config not found! Cannot recover.")
                          EXCEPT !.pc = "done"]]
       ELSE IF ~keep.ok
       THEN [files |-> fs, cycle |-> [Log(c0, "Recovery failed") EXCEPT !.pc = "done"]]
       ELSE [files |-> restore.files,
             cycle |-> [Log(c0, "Restored stable configuration")
                          EXCEPT !.pc = "restart",
                                 !.corrupted = Append(@, backupPath),
                                 !.cmds = Append(@, "openclaw gateway restart")]]

\* attemptRecovery without its try/catch: the exception of copyFileSync
\* leaves the function, and the cycle ends as a rejected promise.
attemptRecoveryNoCatch(c, fs, t, reason) ==
    LET c0 == [Log(c, "Initiating recovery") EXCEPT !.attempts = Append(@, reason)]
        backupPath == CorruptedName(t)
        keep == copyFileSync(fs, CONFIG_PATH, backupPath)
        restore == copyFileSync(keep.files, STABLE_CONFIG_PATH, CONFIG_PATH)
    IN IF ~Exists(fs, STABLE_CONFIG_PATH)
       THEN [files |-> fs,
             cycle |-> [Log(c0, "Stable config not found! Cannot recover.")
                          EXCEPT !.pc = "done"]]
       ELSE IF ~keep.ok
       THEN [files |-> fs, cycle |-> [c0 EXCEPT !.pc = "threw"]]
       ELSE IF ~restore.ok
       THEN [files |-> keep.files,
             cycle |-> [c0 EXCEPT !.pc = "threw", !.corrupted = Append(@, backupPath)]]
       ELSE [files |-> restore.files,
             cycle |-> [Log(c0, "Restored stable configuration")
                          EXCEPT !.pc = "restart",
                                 !.corrupted = Append(@, backupPath),
                                 !.cmds = Append(@, "openclaw gateway restart")]]

\* attemptRecovery(reason) up to its first await, or to its end where it
\* returns or throws before that: the directory after it and the cycle.
attemptRecovery(c, fs, t, reason) ==
    LET c0 == [Log(c, "Initiating recovery") EXCEPT !.attempts = Append(@, reason)]
        backupPath == CorruptedName(t)
        keep == copyFileSync(fs, CONFIG_PATH, backupPath)
        restore == copyFileSync(keep.files, STABLE_CONFIG_PATH, CONFIG_PATH)
    IN IF ~Exists(fs, STABLE_CONFIG_PATH)
       THEN [files |-> fs,
             cycle |-> [Log(c0, "Stable config not found! Cannot recover.")
                          EXCEPT !.pc = "done"]]
       ELSE IF ~keep.ok
       THEN \* copyFileSync threw (no live file): the catch logs it.
            [files |-> fs, cycle |-> [Log(c0, "Recovery failed") EXCEPT !.pc = "done"]]
       ELSE IF ~restore.ok
       THEN [files |-> keep.files,
             cycle |-> [Log(c0, "Recovery failed")
                          EXCEPT !.pc = "done", !.corrupted = Append(@, backupPath)]]
       ELSE [files |-> restore.files,
             cycle |-> [Log(c0, "Restored stable configuration")
                          EXCEPT !.pc = "restart",
                                 !.corrupted = Append(@, backupPath),
                                 !.cmds = Append(@, "openclaw gateway restart")]]

\* JSON.parse(fs.readFileSync(CONFIG_PATH, 'utf8')) does not throw.
LiveParses(fs) == Exists(fs, CONFIG_PATH) /\ Parse(fs[CONFIG_PATH]).ok

\* A checkSystemHealth that leaves a missing process alone once an earlier
\* recovery has left its corrupted copy.
checkSystemHealthRecoversOnce(c, fs, t, pgrep) ==
    IF ~pgrep.success \/ Trim(pgrep.output) = <<>>
    THEN IF CorruptedSet(fs) # {}
         THEN [files |-> fs,
               cycle |-> [Log(c, "Gateway process NOT found!") EXCEPT !.pc = "done"]]
         ELSE attemptRecovery(Log(c, "Gateway process NOT found!"), fs, t,
                              "Process not running")
    ELSE LET probed == [c EXCEPT !.probedConfig = TRUE]
         IN IF ~LiveParses(fs)
            THEN attemptRecovery(Log(probed, "Config JSON is invalid!"), fs, t,
                                 "Invalid Config JSON")
            ELSE [files |-> fs,
                  cycle |-> [Log(probed, "System healthy.") EXCEPT !.pc = "done"]]

\* A checkSystemHealth whose configuration probe also runs validateConfig.
checkSystemHealthValidates(c, fs, t, pgrep) ==
    IF ~pgrep.success \/ Trim(pgrep.output) = <<>>
    THEN attemptRecovery(Log(c, "Gateway process NOT found!"), fs, t,
                         "Process not running")
    ELSE LET probed == [c EXCEPT !.probedConfig = TRUE]
         IN IF ~LiveParses(fs) \/ ~validateConfig(Parse(fs[CONFIG_PATH]).val).valid
            THEN attemptRecovery(Log(probed, "Config JSON is invalid!"), fs, t,
                                 "Invalid Config JSON")
            ELSE [files |-> fs,
                  cycle |-> [Log(probed, "System healthy.") EXCEPT !.pc = "done"]]

\* checkSystemHealth falling through to the configuration probe after the
\* recovery for a missing process (no `return`).
checkSystemHealthFallsThrough(c, fs, t, pgrep) ==
    LET first == IF ~pgrep.success \/ Trim(pgrep.output) = <<>>
                 THEN attemptRecovery(Log(c, "Gateway process NOT found!"), fs, t,
                                      "Process not running")
                 ELSE [files |-> fs, cycle |-> c]
        probed == [first.cycle EXCEPT !.probedConfig = TRUE]
    IN IF ~LiveParses(first.files)
       THEN attemptRecovery(Log(probed, "Config JSON is invalid!"), first.files, t,
                            "Invalid Config JSON")
       ELSE [files |-> first.files, cycle |-> probed]

\* checkSystemHealth from the moment pgrep's result arrives.
checkSystemHealth(c, fs, t, pgrep) ==
    IF ~pgrep.success \/ Trim(pgrep.output) = <<>>
    THEN attemptRecovery(Log(c, "Gateway process NOT found!"), fs, t,
                         "Process not running")
    ELSE LET probed == [c EXCEPT !.probedConfig = TRUE]
         IN IF ~LiveParses(fs)
            THEN attemptRecovery(Log(probed, "Config JSON is invalid!"), fs, t,
                                 "Invalid Config JSON")
            ELSE [files |-> fs,
                  cycle |-> [Log(probed, "System healthy.") EXCEPT !.pc = "done"]]

\* The cycles in flight are a bag of cycle records: two cycles that stand
\* at the same place with the same past are interchangeable.
InFlight == BagCardinality(cycles)

\* A step that takes the cycle with record c to record d: a finished cycle
\* leaves the bag, and the step's output is the record.
CycleStep(op, req, c, d) ==
    /\ cycles' = (cycles (-) SetToBag({c}))
                   (+) (IF d.pc = "done" THEN EmptyBag ELSE SetToBag({d}))
    /\ out' = Response(op, req, 0, d)

\* setInterval(checkSystemHealth, WATCHDOG_CHECK_MS) fires: a new cycle
\* starts and awaits pgrep, whatever the earlier cycles are doing.
TimerFires ==
    /\ InFlight < MaxInFlight
    /\ LET d == [Log(IdleCycle, "Checking system health...")
                   EXCEPT !.pc = "pgrep", !.cmds = <<PgrepCmd>>]
       IN /\ cycles' = cycles (+) SetToBag({d})
          /\ out' = Response("setInterval", <<>>, 0, d)
    /\ UNCHANGED <<now, files>>

\* The await of pgrep resumes.
PgrepReturns(c, outcome) ==
    /\ c.pc = "pgrep"
    /\ \E pgrep \in {runCommand(outcome)} :
         \E r \in {checkSystemHealth(c, files, now, pgrep)} :
          /\ files' = r.files
          /\ CycleStep("await pgrep", [pgrep |-> pgrep], c, r.cycle)
    /\ UNCHANGED now

\* What exec hands the callback for `openclaw gateway <action>`: success,
\* a non-zero exit status with stderr, the timeout.
ControlOutcomes ==
    { ExecOutcome(FALSE, <<"o", "k">>, <<>>, <<>>),
      ExecOutcome(TRUE, <<>>, <<"n", "o">>, <<"C", "o", "m", "m", "a", "n", "d", " ", "f", "a", "i", "l", "e", "d">>),
      ExecOutcome(TRUE, <<>>, <<>>, <<"t", "i", "m", "e", "o", "u", "t">>) }

\* The await of `openclaw gateway restart` resumes: its result is dropped.
RestartReturns(c, outcome) ==
    /\ c.pc = "restart"
    /\ CycleStep("await restart", [result |-> runCommand(outcome)], c,
                 [c EXCEPT !.pc = "start",
                           !.cmds = Append(@, "openclaw gateway start")])
    /\ UNCHANGED <<now, files>>

\* The await of `openclaw gateway start` resumes: the recovery completes.
StartReturns(c, outcome) ==
    /\ c.pc = "start"
    /\ CycleStep("await start", [result |-> runCommand(outcome)], c,
                 [Log(c, "Recovery sequence complete.")
                    EXCEPT !.pc = "done",
                           !.events = Append(@, [name |-> "system:recovery",
                                                 reason |-> c.attempts[Len(c.attempts)],
                                                 time |-> IsoStamp(now)])])
    /\ UNCHANGED <<now, files>>

----------------------------------------------------------------------------
(* The HTTP handlers that run a command or read the configuration.  A      *)
(* handler that awaits runCommand is a record in `requests` from the call  *)
(* of runCommand to the moment its promise resolves.                       *)

\* What a CLI command prints: some characters, then a text.
CliText(banner, text) == [banner |-> banner, text |-> text]

\* What exec hands the callback for `openclaw sessions --json` and
\* `openclaw cron list --json`: the JSON alone, the JSON after a banner
\* line, after a banner with a brace in it, a JSON without the key, the
\* text `null`, no JSON at all, and a failure with stderr.
CliOutcomes(key) ==
    LET listing == ByHand(Obj(key :> Arr(<<Str("main")>>)))
        nothing == CliText(<<>>, Garbage)
    IN { ExecOutcome(FALSE, CliText(<<>>, listing), nothing, nothing),
         ExecOutcome(FALSE, CliText(<<"o", "k", "\n">>, listing), nothing, nothing),
         ExecOutcome(FALSE, CliText(<<"{", "\n">>, listing), nothing, nothing),
         ExecOutcome(FALSE, CliText(<<>>, ByHand(DocEmpty)), nothing, nothing),
         ExecOutcome(FALSE, CliText(<<" ">>, ByHand(Null)), nothing, nothing),
         ExecOutcome(FALSE, nothing, nothing, nothing),
         ExecOutcome(TRUE, nothing, CliText(<<"n", "o">>, Garbage), nothing) }

\* jsonStr.indexOf('{'), substring(firstBrace), JSON.parse: a brace in the
\* banner leaves a rest that is no JSON; the text of an object starts with
\* the first brace; without any brace the whole output is parsed, and
\* JSON.parse skips white space only.
ParseFromFirstBrace(output) ==
    IF \E i \in 1..Len(output.banner) : output.banner[i] = "{"
    THEN [ok |-> FALSE, val |-> Undefined]
    ELSE IF Parse(output.text).ok /\ Parse(output.text).val.t = "object"
    THEN Parse(output.text)
    ELSE IF Trim(output.banner) = <<>>
    THEN Parse(output.text)
    ELSE [ok |-> FALSE, val |-> Undefined]

\* The body of a listing handler after its await: data[key] || [], and the
\* catch for a JSON.parse that throws and for a property read of null.
listing(key, result) ==
    LET data == ParseFromFirstBrace(result.output)
    IN IF ~data.ok \/ data.val.t \in {"null", "undefined"}
       THEN [success |-> FALSE, error |-> "Parse error"]
       ELSE [success |-> TRUE,
             list |-> IF Truthy(Get(data.val, key)) THEN Get(data.val, key)
                      ELSE Arr(<<>>)]

\* A handler calls runCommand(cmd) and awaits it.
Awaiting(op, cmd) == [op |-> op, cmd |-> cmd]

\* The step of a handler that calls runCommand: the output of the step is
\* the pending call (no response is sent yet).
CallsCommand(op, req, cmd) ==
    /\ requests' = requests (+) SetToBag({Awaiting(op, cmd)})
    /\ out' = Response(op, req, 0, Awaiting(op, cmd))

\* GET /api/sessions up to its await.
GetSessions(token) ==
    /\ IF authMiddleware(token)
       THEN CallsCommand("GET /api/sessions", <<>>, "openclaw sessions --json")
       ELSE /\ requests' = requests
            /\ out' = Unauthorized("GET /api/sessions", token)
    /\ UNCHANGED <<now, files, cycles>>

\* GET /api/cron up to its await.
GetCron(token) ==
    /\ IF authMiddleware(token)
       THEN CallsCommand("GET /api/cron", <<>>, "openclaw cron list --json")
       ELSE /\ requests' = requests
            /\ out' = Unauthorized("GET /api/cron", token)
    /\ UNCHANGED <<now, files, cycles>>

\* The action of a control request: a string, or nothing.
validActions == {"restart", "stop", "start"}
Actions == {Str(a) : a \in validActions}
             \cup {Str("status"), Str("start; reboot"), Undefined}

\* `${action}` in a template string.
Template(x) == IF x.t = "string" THEN x.v ELSE "undefined"

\* validActions.includes(action)
includes(action) == action.t = "string" /\ action.v \in validActions

\* The control handler without the check of the action.
postControlUnchecked(action) ==
    [code |-> 0, cmds |-> <<"openclaw gateway " \o Template(action)>>,
     body |-> <<>>]

\* POST /api/control up to its await: the status code and body where it
\* answers at once, and the commands it hands to runCommand.
postControl(action) ==
    IF ~includes(action)
    THEN [code |-> 400, cmds |-> <<>>, body |-> [error |-> "Invalid action"]]
    ELSE [code |-> 0, cmds |-> <<"openclaw gateway " \o Template(action)>>,
          body |-> <<>>]

PostControl(token, action) ==
    /\ IF authMiddleware(token)
       THEN \E r \in {postControl(action)} :
              IF r.cmds = <<>>
              THEN /\ requests' = requests
                   /\ out' = Response("POST /api/control", [action |-> action],
                                      r.code, r.body)
              ELSE /\ requests' = requests
                        (+) SetToBag({Awaiting("POST /api/control", r.cmds[i]) :
                                        i \in 1..Len(r.cmds)})
                   /\ out' = Response("POST /api/control", [action |-> action],
                                      r.code, Awaiting("POST /api/control", r.cmds[1]))
       ELSE /\ requests' = requests
            /\ out' = Unauthorized("POST /api/control", token)
    /\ UNCHANGED <<now, files, cycles>>

\* The await of a handler resumes with the result of its command: the
\* handler answers and ends.
CommandReturns(q, outcome) ==
    /\ requests' = requests (-) SetToBag({q})
    /\ \E result \in {runCommand(outcome)} :
         out' = Response("await " \o q.op, [cmd |-> q.cmd], 200,
                         CASE q.op = "GET /api/sessions" -> listing("sessions", result)
                           [] q.op = "GET /api/cron" -> listing("jobs", result)
                           [] OTHER -> result)
    /\ UNCHANGED <<now, files, cycles>>

\* The outcomes the command of a pending handler can have.
OutcomesOf(q) ==
    CASE q.op = "GET /api/sessions" -> CliOutcomes("sessions")
      [] q.op = "GET /api/cron" -> CliOutcomes("jobs")
      [] OTHER -> ControlOutcomes

\* token.substring(0, 8) + '********'
Masked(token) ==
    CASE token = "tokenA-secret" -> "tokenA-s********"
      [] token = "tokenB-secret" -> "tokenB-s********"
      [] OTHER -> token \o "********"

\* GET /api/config: the parsed document with the gateway token masked, the
\* list of backups and the raw text; 500 where the read or the parse throws.
getConfig(fs) ==
    IF ~LiveParses(fs) \/ Parse(fs[CONFIG_PATH]).val.t \in {"null", "undefined"}
    THEN [code |-> 500, body |-> [success |-> FALSE]]
    ELSE LET parsed == Parse(fs[CONFIG_PATH]).val
             token == Get(Get(Get(parsed, "gateway"), "auth"), "token")
         IN [code |-> 200,
             body |-> [success |-> TRUE,
                       config |-> IF Truthy(token) /\ token.t = "string"
                                  THEN Obj([parsed.v EXCEPT
                                         !["gateway"] = Obj([@.v EXCEPT
                                           !["auth"] = Obj([@.v EXCEPT
                                             !["token"] = Str(Masked(token.v))])])])
                                  ELSE parsed,
                       backups |-> getConfigBackups(fs),
                       raw |-> fs[CONFIG_PATH]]]

GetConfig(token) ==
    /\ IF authMiddleware(token)
       THEN \E r \in {getConfig(files)} :
              out' = Response("GET /api/config", <<>>, r.code, r.body)
       ELSE out' = Unauthorized("GET /api/config", token)
    /\ UNCHANGED <<now, files, cycles, requests>>

----------------------------------------------------------------------------
(* Log streaming.  A connected socket is a record: whether its connection  *)
(* handler started streaming, and the `buffer` of its closure.             *)

\* A file of /tmp/openclaw: its name is prefix, date, ext.
LogName(prefix, date, ext) == [prefix |-> prefix, date |-> date, ext |-> ext]

\* /tmp/openclaw as a connection finds it: absent (no element marks it as
\* present), empty, with one log, with two logs and another file.
NoLogDir == {}
Present == LogName("", <<>>, "")
LogDirs ==
    { NoLogDir,
      {Present},
      {Present, LogName("openclaw-", <<0, 1>>, ".log")},
      {Present, LogName("openclaw-", <<0, 1>>, ".log"),
                LogName("openclaw-", <<0, 2>>, ".log"),
                LogName("gateway-", <<0, 3>>, ".log"),
                LogName("openclaw-", <<0, 4>>, ".txt")} }

\* getLatestLog(): <<>> for null, else the greatest matching name.
getLatestLog(dir) ==
    LET logs == {f \in dir : f.prefix = "openclaw-" /\ f.ext = ".log"}
    IN IF dir = NoLogDir \/ logs = {} THEN <<>>
       ELSE <<CHOOSE f \in logs : \A g \in logs : g = f \/ LexLess(g.date, f.date)>>

\* socket.emit(name, data)
Emit(name, data) == [name |-> name, data |-> data]

\* The connection handler without the `disconnect` listener's tail.kill().
onDisconnectKeepsTail(socks, procs, id) ==
    [sockets |-> [i \in DOMAIN socks \ {id} |-> socks[i]], tails |-> procs]

\* io.on('connection'): the sockets and the follow-processes after it, and
\* what it emits on the socket.
onConnection(socks, procs, id, dir) ==
    LET logFile == getLatestLog(dir)
    IN IF logFile # <<>>
       THEN [sockets |-> (id :> [streaming |-> TRUE, buffer |-> <<>>]) @@ socks,
             tails |-> procs (+) SetToBag({id}),
             emits |-> <<Emit("system:connected", logFile[1])>>]
       ELSE [sockets |-> (id :> [streaming |-> FALSE, buffer |-> <<>>]) @@ socks,
             tails |-> procs,
             emits |-> <<>>]

\* The socket disconnects: the listener of a streaming socket kills its
\* tail; a socket that did not stream has no listener.
onDisconnect(socks, procs, id) ==
    [sockets |-> [i \in DOMAIN socks \ {id} |-> socks[i]],
     tails |-> IF socks[id].streaming THEN procs (-) SetToBag({id}) ELSE procs]

RECURSIVE Split(_, _)
\* str.split('\n'), the piece under way being cur
Split(str, cur) ==
    IF str = <<>> THEN <<cur>>
    ELSE IF Head(str) = "\n" THEN <<cur>> \o Split(Tail(str), <<>>)
    ELSE Split(Tail(str), Append(cur, Head(str)))

\* tail.stdout.on('data'): the buffer after it and the lines it emits.
onData(buffer, data) ==
    LET lines == Split(buffer \o data, <<>>)
        whole == SubSeq(lines, 1, Len(lines) - 1)
        shown(line) == Trim(line) # <<>>
    IN [buffer |-> lines[Len(lines)],
        emits |-> [i \in 1..Len(SelectSeq(whole, shown)) |->
                     Emit("log", SelectSeq(whole, shown)[i])]]

\* What tail hands over at once.
Chunks == {<<"a", "\n">>, <<"b">>, <<" ", "\n", "c">>}

SocketIds == 1..MaxSockets

Connect(id, dir) ==
    /\ id \notin DOMAIN sockets
    /\ \E r \in {onConnection(sockets, tails, id, dir)} :
         /\ sockets' = r.sockets
         /\ tails' = r.tails
         /\ out' = Response("connection", [id |-> id], 0, [emits |-> r.emits])
    /\ UNCHANGED <<now, files, cycles, requests>>

Disconnect(id) ==
    /\ id \in DOMAIN sockets
    /\ \E r \in {onDisconnect(sockets, tails, id)} :
         /\ sockets' = r.sockets
         /\ tails' = r.tails
    /\ out' = Response("disconnect", [id |-> id], 0, [emits |-> <<>>])
    /\ UNCHANGED <<now, files, cycles, requests>>

\* The tail of socket id writes to its stdout.
TailStdout(id, data) ==
    /\ BagIn(id, tails)
    /\ id \in DOMAIN sockets
    /\ \E r \in {onData(sockets[id].buffer, data)} :
         /\ sockets' = [sockets EXCEPT ![id].buffer = r.buffer]
         /\ out' = Response("tail stdout", [id |-> id], 0, [emits |-> r.emits])
    /\ UNCHANGED <<now, files, cycles, requests, tails>>

\* The tail of socket id writes to its stderr.
TailStderr(id) ==
    /\ BagIn(id, tails)
    /\ id \in DOMAIN sockets
    /\ out' = Response("tail stderr", [id |-> id], 0,
                       [emits |-> <<Emit("log", [error |-> <<"n", "o">>])>>])
    /\ UNCHANGED <<now, files, cycles, requests, sockets, tails>>

----------------------------------------------------------------------------
(* The start of the server.                                                *)

\* The live file at start: a valid document, a malformed text, or none.
InitLive == {<<ByHand(DocA)>>, <<Garbage>>, <<>>}
\* The stable snapshot, written out of band: a valid document, a document
\* without `agents`, or none.
InitStable == {<<ByHand(DocB)>>, <<ByHand(DocNoAgents)>>, <<>>}
\* How many backups earlier runs of the server left.
InitBackupCounts == {0} \cup {k \in 0..MaxBackups : k >= MaxBackups - InitSlack}

\* The backups earlier runs left: k of them, at the k milliseconds before the
\* server started, holding what the writes of that time replaced.
InitBackups(k) ==
    [n \in {BakName(t) : t \in (BootTime - k)..(BootTime - 1)} |->
        IF \E t \in (BootTime - k)..(BootTime - 1) : n = BakName(t) /\ t % 2 = 0
        THEN Stringify(DocA) ELSE Stringify(DocB)]

Init ==
    /\ now = BootTime
    /\ \E live \in InitLive, stable \in InitStable, k \in InitBackupCounts :
        files = InitBackups(k) @@ (IF live = <<>> THEN <<>> ELSE CONFIG_PATH :> live[1])
                  @@ (IF stable = <<>> THEN <<>> ELSE STABLE_CONFIG_PATH :> stable[1])
    /\ cycles = EmptyBag
    /\ out = NoOutput
    /\ steps = 0
    /\ writeLog = <<>>
    /\ requests = EmptyBag
    /\ sockets = <<>>
    /\ tails = EmptyBag

\* A step of a run of the full system.
Bounded == steps < MaxSteps

\* authMiddleware answers before a handler reads the request body, so one
\* body stands for all the bodies of a request whose token it rejects.
Bodies(token, S) == IF authMiddleware(token) THEN S ELSE {CHOOSE x \in S : TRUE}

Counted ==
    /\ steps' = steps + 1
    /\ UNCHANGED <<writeLog, requests, sockets, tails>>

Next ==
    \/ Bounded /\ Tick(MaxSteps) /\ Counted
    \/ \E token \in Tokens :
         \E config \in Bodies(token, Docs), verifyOnly \in Bodies(token, BOOLEAN) :
           Bounded /\ PostConfig(token, config, verifyOnly) /\ Counted
    \/ \E token \in Tokens :
         \E backupFile \in Bodies(token, BackupFiles(files)) :
           Bounded /\ PostRestore(token, backupFile) /\ Counted
    \/ Bounded /\ TimerFires /\ Counted
    \/ \E c \in BagToSet(cycles), outcome \in PgrepOutcomes :
         Bounded /\ PgrepReturns(c, outcome) /\ Counted
    \/ \E c \in BagToSet(cycles), outcome \in ControlOutcomes :
         Bounded /\ RestartReturns(c, outcome) /\ Counted
    \/ \E c \in BagToSet(cycles), outcome \in ControlOutcomes :
         Bounded /\ StartReturns(c, outcome) /\ Counted

Spec == Init /\ [][Next]_vars

\* The watchdog alone, for ever: the timer fires every WATCHDOG_CHECK_MS
\* (setInterval is never cleared), and exec calls back at the latest when
\* its timeout of CommandTimeoutMs has killed the command, so an await of
\* runCommand that is pending resumes.
Idle == UNCHANGED <<steps, writeLog, requests, sockets, tails>>

WatchdogTimer == InFlight < MaxOverlap /\ TimerFires /\ Idle
WatchdogPgrep ==
    \E c \in BagToSet(cycles), outcome \in PgrepOutcomes :
      PgrepReturns(c, outcome) /\ Idle
WatchdogRestart ==
    \E c \in BagToSet(cycles), outcome \in ControlOutcomes :
      RestartReturns(c, outcome) /\ Idle
WatchdogStart ==
    \E c \in BagToSet(cycles), outcome \in ControlOutcomes :
      StartReturns(c, outcome) /\ Idle

NextWatchdog ==
    \/ Tick(MaxWatchTicks) /\ Idle
    \/ WatchdogTimer
    \/ WatchdogPgrep
    \/ WatchdogRestart
    \/ WatchdogStart

SpecWatchdog ==
    /\ Init
    /\ [][NextWatchdog]_vars
    /\ WF_vars(WatchdogTimer)
    /\ WF_vars(WatchdogPgrep)
    /\ WF_vars(WatchdogRestart)
    /\ WF_vars(WatchdogStart)

\* The log streaming beside the watchdog: observers connect and disconnect,
\* their tails print, and cycles run.
BoundedStream == steps < MaxStreamSteps

CountedStream ==
    /\ steps' = steps + 1
    /\ UNCHANGED writeLog

\* A step of the watchdog in a run of the log streaming.
CountedWatchdog ==
    /\ steps' = steps + 1
    /\ UNCHANGED <<writeLog, requests, sockets, tails>>

\* The runs of the log streaming start without backups.
InitStream == Init /\ BackupSet(files) = {}

NextStream ==
    \/ \E id \in SocketIds, dir \in LogDirs :
         BoundedStream /\ Connect(id, dir) /\ CountedStream
    \/ \E id \in SocketIds : BoundedStream /\ Disconnect(id) /\ CountedStream
    \/ \E id \in SocketIds, data \in Chunks :
         BoundedStream /\ TailStdout(id, data) /\ CountedStream
    \/ \E id \in SocketIds : BoundedStream /\ TailStderr(id) /\ CountedStream
    \/ BoundedStream /\ TimerFires /\ CountedWatchdog
    \/ \E c \in BagToSet(cycles), outcome \in PgrepOutcomes :
         BoundedStream /\ PgrepReturns(c, outcome) /\ CountedWatchdog
    \/ \E c \in BagToSet(cycles), outcome \in ControlOutcomes :
         BoundedStream /\ RestartReturns(c, outcome) /\ CountedWatchdog
    \/ \E c \in BagToSet(cycles), outcome \in ControlOutcomes :
         BoundedStream /\ StartReturns(c, outcome) /\ CountedWatchdog

SpecStream == InitStream /\ [][NextStream]_vars

\* The HTTP interface alone: every protected endpoint, with and without the
\* token, and the commands of the handlers returning.
BoundedApi == steps < MaxApiSteps

\* The documents of its write requests: one that validates and one that
\* does not.
ApiDocs == {DocB, DocNoAgents}

CountedApi ==
    /\ steps' = steps + 1
    /\ UNCHANGED <<writeLog, sockets, tails>>

\* No HTTP handler reads the stable snapshot: the runs of the HTTP interface
\* start without one.
InitApi == Init /\ ~Exists(files, STABLE_CONFIG_PATH)

NextApi ==
    \/ BoundedApi /\ Tick(MaxApiSteps) /\ CountedApi /\ UNCHANGED requests
    \/ \E token \in Tokens : BoundedApi /\ GetSessions(token) /\ CountedApi
    \/ \E token \in Tokens : BoundedApi /\ GetCron(token) /\ CountedApi
    \/ \E token \in Tokens :
         \E action \in Bodies(token, Actions) :
           BoundedApi /\ PostControl(token, action) /\ CountedApi
    \/ \E q \in BagToSet(requests) :
         \E outcome \in OutcomesOf(q) :
           BoundedApi /\ CommandReturns(q, outcome) /\ CountedApi
    \/ \E token \in Tokens : BoundedApi /\ GetConfig(token) /\ CountedApi
    \/ \E token \in Tokens :
         \E config \in Bodies(token, ApiDocs), verifyOnly \in Bodies(token, BOOLEAN) :
           BoundedApi /\ PostConfig(token, config, verifyOnly) /\ CountedApi
                      /\ UNCHANGED requests
    \/ \E token \in Tokens :
         \E backupFile \in Bodies(token, BackupFiles(files)) :
           BoundedApi /\ PostRestore(token, backupFile) /\ CountedApi
                      /\ UNCHANGED requests

SpecApi == InitApi /\ [][NextApi]_vars

----------------------------------------------------------------------------
(* A run of consecutive successful writes: nothing but authorized writes   *)
(* of valid documents (each differing from the one before) and the clock.  *)

\* How many writes of the run got the backup path of the current millisecond.
WritesThisMs ==
    Cardinality({i \in 1..Len(writeLog) : writeLog[i] = <<BakName(now)>>})

ConsecutiveWrite ==
    /\ Len(writeLog) < MaxBackups + MaxExtraWrites
    /\ WritesThisMs < MaxWritesPerMs
    /\ PostConfig(API_TOKEN, IF Len(writeLog) % 2 = 0 THEN DocB ELSE DocA, FALSE)
    /\ writeLog' = Append(writeLog, out'.body.backupPath)
    /\ UNCHANGED <<steps, requests, sockets, tails>>

WriteTick ==
    Tick(MaxWriteTicks) /\ UNCHANGED <<steps, writeLog, requests, sockets, tails>>

NextWrites == WriteTick \/ ConsecutiveWrite

SpecWrites == Init /\ [][NextWrites]_vars

----------------------------------------------------------------------------
(* Properties.                                                             *)

\* The live file holds a document that passes validateConfig.
LiveValid(fs) == LiveParses(fs) /\ validateConfig(Parse(fs[CONFIG_PATH]).val).valid

\* The cycles in flight that are inside attemptRecovery (awaiting restart
\* or start).
Recovering == {c \in BagToSet(cycles) : c.pc \in {"restart", "start"}}
NumRecovering == BagCardinality([c \in Recovering |-> cycles[c]])

RECURSIVE Newest(_, _)
\* The n greatest names of S: S without its least name, until n remain.
Newest(S, n) ==
    IF Cardinality(S) <= n THEN S
    ELSE Newest(S \ {CHOOSE x \in S : \A y \in S : ~NameLess(y, x)}, n)

\* The response r is that of a handler run that called backupConfig: a
\* write that saved (or failed after validation), a restore that found its
\* file.
CalledBackupConfig(r) ==
    \/ /\ r.op = "POST /api/config"
       /\ \/ r.code = 200 /\ "backupPath" \in DOMAIN r.body
          \/ r.code = 500
    \/ /\ r.op = "POST /api/config/restore"
       /\ r.code \in {200, 500}

\* C1: a live file that passes structural validation still passes it after
\* any step of the program (config write, backup restore, watchdog
\* recovery): with a valid live file at the start, no reachable state has a
\* live file that fails validation.
C1_LiveStaysValid == [][LiveValid(files) => LiveValid(files')]_vars

\* C2: no watchdog cycle begins while a recovery is in flight, and no two
\* recoveries are ever in flight together.
C2_NoCycleOverlap ==
    [][/\ NumRecovering >= 1 => InFlight' <= InFlight
       /\ NumRecovering' <= 1]_vars

\* C3: the Backup Set never has more than 10 members, and a step changes it
\* only by a backup of the live file made at the current time, after which
\* the 10 newest of the old set and the new backup remain (the oldest are
\* the ones evicted, and only where the set would exceed 10).
C3_BackupSetBounded ==
    /\ [](Cardinality(BackupSet(files)) <= MaxBackups)
    /\ [][BackupSet(files') =
            IF CalledBackupConfig(out') /\ Exists(files, CONFIG_PATH)
            THEN Newest(BackupSet(files) \cup {BakName(now)}, MaxBackups)
            ELSE BackupSet(files)]_vars

\* C3 witness: a full Backup Set that has lost a backup every start of the
\* server has (an eviction has happened).
C3_Evicted ==
    /\ Cardinality(BackupSet(files)) = MaxBackups
    /\ ~Exists(files, BakName(BootTime - MaxBackups + InitSlack))
    /\ Exists(files, BakName(BootTime))

\* The steps of a watchdog cycle.
WatchdogOps == {"setInterval", "await pgrep", "await restart", "await start"}
LastLog(c) == c.logs[Len(c.logs)]

\* The liveness probe of the step that produced r returned empty output or
\* failed.
ProbeEmptyOrFailed(r) ==
    /\ r.op = "await pgrep"
    /\ ~r.req.pgrep.success \/ r.req.pgrep.output = <<>>

\* The rules of structural validation that a document violates.
ViolatedRules(config) ==
    IF config.t # "object" THEN {"Config must be an object"}
    ELSE LET has(x, key) == key \in DOMAIN x.v /\ Truthy(x.v[key])
             gw == config.v.gateway
         IN {"Missing required field: " \o f : f \in {f \in {"gateway", "agents"} : ~has(config, f)}}
            \cup {m \in {"gateway.port must be a number"} :
                    /\ has(config, "gateway")
                    /\ ~(gw.t = "object" /\ "port" \in DOMAIN gw.v
                          /\ gw.v.port.t \in {"number", "infinity"})}
            \cup {m \in {"gateway.auth.token is required"} :
                    /\ has(config, "gateway")
                    /\ ~(gw.t = "object" /\ has(gw, "auth")
                          /\ gw.v.auth.t = "object" /\ has(gw.v.auth, "token"))}

\* C4: after more than 10 consecutive successful writes, getConfigBackups
\* returns exactly 10 names: the backup paths that the 10 most recent writes
\* returned, the newest first.
C4_TenMostRecent ==
    Len(writeLog) > MaxBackups =>
        LET list == getConfigBackups(files)
        IN /\ Len(list) = MaxBackups
           /\ \A i \in 1..MaxBackups : writeLog[Len(writeLog) + 1 - i] = <<list[i]>>

\* C5: a restore that names a member of the Backup Set answers 200, has
\* backed up the live file it found and leaves the live file with the text
\* the named backup had when the request arrived; a restore that names no
\* file answers 404 and changes no file.
C5_RestoreFrom ==
    [][out'.op = "POST /api/config/restore" /\ out'.code # 401 =>
         LET id == out'.req.backupFile
         IN /\ id \in BackupSet(files) =>
                 /\ out'.code = 200
                 /\ Exists(files, CONFIG_PATH) =>
                        /\ Exists(files', BakName(now))
                        /\ files'[BakName(now)] = files[CONFIG_PATH]
                 /\ Exists(files', CONFIG_PATH)
                 /\ files'[CONFIG_PATH] = files[id]
            /\ ~Exists(files, id) =>
                 /\ out'.code = 404
                 /\ files' = files]_vars

\* C6: a cycle whose liveness probe failed or returned empty output has made
\* one recovery attempt, with the reason "Process not running", and has not
\* run the configuration probe; no cycle ever makes a second attempt.
C6_OneRecoveryAttempt ==
    /\ [](\A c \in BagToSet(cycles) \cup (IF out.op \in WatchdogOps THEN {out.body} ELSE {}) :
            Len(c.attempts) <= 1)
    /\ [][ProbeEmptyOrFailed(out') =>
            /\ out'.body.attempts = <<"Process not running">>
            /\ ~out'.body.probedConfig]_vars

\* C6 witness: pgrep exited with status 0 and printed nothing, and the cycle
\* made its one attempt.
C6_AttemptOnEmptyOutput ==
    /\ ProbeEmptyOrFailed(out)
    /\ out.req.pgrep.success
    /\ out.body.attempts = <<"Process not running">>

\* C7: a recovery that finds no stable snapshot changes no file (the live
\* file stays as it is, no corrupted copy appears), hands runCommand neither
\* restart nor start, emits no event, logs the failure and ends the cycle.
C7_NoStableNoChange ==
    [][/\ out'.op = "await pgrep"
       /\ out'.body.attempts # <<>>
       /\ ~Exists(files, STABLE_CONFIG_PATH)
       => /\ files' = files
          /\ out'.body.corrupted = <<>>
          /\ out'.body.cmds = <<PgrepCmd>>
          /\ out'.body.events = <<>>
          /\ LastLog(out'.body) = "Stable config not found! Cannot recover."
          /\ out'.body.pc = "done"
          /\ InFlight' = InFlight - 1]_vars

\* C7 witness: a recovery was triggered with a live file and no stable
\* snapshot, and reported it.
C7_AbortedWithoutStable ==
    /\ out.op = "await pgrep"
    /\ out.body.attempts # <<>>
    /\ ~Exists(files, STABLE_CONFIG_PATH)
    /\ Exists(files, CONFIG_PATH)
    /\ LastLog(out.body) = "Stable config not found! Cannot recover."

\* C8: in a cycle whose liveness probe failed or returned empty output while
\* a stable snapshot is present, the recovery creates one corrupted copy
\* holding the live file's text, makes the live file equal to the stable
\* snapshot and issues restart; start follows, and the cycle ends with one
\* recovery event of reason "Process not running".
C8_RecoveryFromStable ==
    [][/\ ProbeEmptyOrFailed(out') /\ Exists(files, STABLE_CONFIG_PATH) =>
            /\ out'.body.corrupted = <<CorruptedName(now)>>
            /\ Exists(files', CorruptedName(now))
            /\ Exists(files, CONFIG_PATH) =>
                   files'[CorruptedName(now)] = files[CONFIG_PATH]
            /\ Exists(files', CONFIG_PATH)
            /\ files'[CONFIG_PATH] = files[STABLE_CONFIG_PATH]
            /\ out'.body.cmds = <<PgrepCmd, "openclaw gateway restart">>
       /\ out'.op = "await restart" =>
            out'.body.cmds = <<PgrepCmd, "openclaw gateway restart", "openclaw gateway start">>
       /\ out'.op = "await start" /\ out'.body.attempts = <<"Process not running">> =>
            out'.body.events = <<[name |-> "system:recovery",
                                  reason |-> "Process not running",
                                  time |-> IsoStamp(now)]>>]_vars

\* C9: a write of a document that passes validateConfig does not turn a
\* live file that parses into one that does not, and where it answers that
\* it saved, the live file parses to the document of the request.
C9_WriteRoundTrip ==
    [][/\ out'.op = "POST /api/config"
       /\ out'.code # 401
       /\ validateConfig(out'.req.config).valid
       => /\ LiveParses(files) => LiveParses(files')
          /\ out'.code = 200 /\ "backupPath" \in DOMAIN out'.body =>
                /\ LiveParses(files')
                /\ Parse(files'[CONFIG_PATH]).val = out'.req.config]_vars

\* C10: a write of a document that violates a rule of structural validation
\* answers 400 with every violated rule, once each, and changes no file (the
\* live file and the Backup Set stay as they are).
C10_InvalidWriteRejected ==
    [][/\ out'.op = "POST /api/config"
       /\ out'.code # 401
       /\ ViolatedRules(out'.req.config) # {}
       => /\ out'.code = 400
          /\ Range(out'.body.details) = ViolatedRules(out'.req.config)
          /\ Len(out'.body.details) = Cardinality(ViolatedRules(out'.req.config))
          /\ files' = files]_vars

\* C10 witness: a gateway with neither port nor token was rejected with both
\* rules, in a directory that holds backups.
C10_RejectedWithBothRules ==
    /\ out.op = "POST /api/config"
    /\ out.code = 400
    /\ out.req.config = DocBareGateway
    /\ out.body.details = <<"gateway.port must be a number", "gateway.auth.token is required">>
    /\ BackupSet(files) # {}


----------------------------------------------------------------------------
(* The control endpoint.                                                   *)

\* The command the specification names for a control action.
CommandFor(action) ==
    CASE action = "start" -> "openclaw gateway start"
      [] action = "stop" -> "openclaw gateway stop"
      [] action = "restart" -> "openclaw gateway restart"

\* C11: a control request that passes authentication with an action other
\* than start, stop and restart is answered 400 "Invalid action" and changes
\* nothing: no command is handed to runCommand, no file and no watchdog
\* cycle changes.  With one of the three actions the handler hands exactly
\* one command to runCommand, the gateway command of that action, and
\* changes nothing else.
C11_ControlAction ==
    [][out'.op = "POST /api/control" /\ out'.code # 401 =>
         IF out'.req.action \in {Str("start"), Str("stop"), Str("restart")}
         THEN /\ requests' = requests
                   (+) SetToBag({[op |-> "POST /api/control",
                                  cmd |-> CommandFor(out'.req.action.v)]})
              /\ BagCardinality(requests') = BagCardinality(requests) + 1
              /\ UNCHANGED <<files, cycles>>
         ELSE /\ out'.code = 400
              /\ out'.body = [error |-> "Invalid action"]
              /\ UNCHANGED <<files, cycles, requests>>]_vars

\* A control request with an unknown action was refused while the command
\* of an accepted `stop` was still running.
C11_RefusedAfterAccepted ==
    /\ out.op = "POST /api/control"
    /\ out.code = 400
    /\ out.req.action = Str("start; reboot")
    /\ BagToSet(requests) = {[op |-> "POST /api/control", cmd |-> "openclaw gateway stop"]}


----------------------------------------------------------------------------
(* Authentication.                                                         *)

\* A step is a request to a protected endpoint carrying `token`.
Protected(token) ==
    \/ GetSessions(token)
    \/ GetCron(token)
    \/ \E action \in Bodies(token, Actions) : PostControl(token, action)
    \/ GetConfig(token)
    \/ \E config \in Bodies(token, Docs), verifyOnly \in Bodies(token, BOOLEAN) :
         PostConfig(token, config, verifyOnly)
    \/ \E backupFile \in Bodies(token, BackupFiles(files)) :
         PostRestore(token, backupFile)

\* C12: a request to a protected endpoint (sessions, cron, control, config
\* read, config write, restore) without the token or with another token is
\* answered 401 "Unauthorized" and leaves the state as it was: no command
\* is handed to runCommand, and the files of the configuration directory
\* (the live file and the Backup Set among them), the watchdog cycles and
\* the clock are unchanged.
C12_RejectedBeforeHandler ==
    [][\A token \in Tokens \ {API_TOKEN} :
         Protected(token) =>
           /\ out'.code = 401
           /\ out'.body = [error |-> "Unauthorized"]
           /\ out'.req = [token |-> token]
           /\ UNCHANGED <<now, files, cycles, requests, sockets, tails>>]_vars

\* A restore without a token was refused while a command of an earlier,
\* authenticated request was still running.
C12_RefusedRestore ==
    /\ out.op = "POST /api/config/restore"
    /\ out.code = 401
    /\ out.req.token = ""
    /\ requests # EmptyBag


----------------------------------------------------------------------------
(* The backup of a write.                                                  *)

\* C13: a write that answers that it saved (the document passed validation,
\* the request was not verify-only, nothing threw) added one member to the
\* Backup Set, that member holds what the live file held before the write,
\* and the response names it.
C13_WriteCreatesBackup ==
    [][/\ out'.op = "POST /api/config"
       /\ out'.code = 200
       /\ "backupPath" \in DOMAIN out'.body
       => \E b \in BackupSet(files') \ BackupSet(files) :
            /\ out'.body.backupPath = <<b>>
            /\ files'[b] = files[CONFIG_PATH]]_vars


----------------------------------------------------------------------------
(* The watchdog's loop.                                                    *)

\* Where a cycle stands after a step that started at pc.
After(pc) ==
    CASE pc = "idle" -> {"pgrep"}
      [] pc = "pgrep" -> {"restart", "done"}
      [] pc = "restart" -> {"start"}
      [] pc = "start" -> {"done"}

\* Where the cycle stood before the step with output r.
Before(r) ==
    CASE r.op = "setInterval" -> "idle"
      [] r.op = "await pgrep" -> "pgrep"
      [] r.op = "await restart" -> "restart"
      [] r.op = "await start" -> "start"

\* C14: no failure stops the watchdog's loop.  Whatever runCommand resolves
\* to (a non-zero exit status, the timeout) and whatever the copies of a
\* recovery do (no live file), a step of a cycle ends at the next await or
\* at the end of the cycle and never with an exception that leaves
\* checkSystemHealth; every cycle in flight awaits a command; the timer
\* fires again and again, and cycles end again and again.
C14_LoopNeverStops ==
    /\ [][out'.op \in WatchdogOps => out'.body.pc \in After(Before(out'))]_vars
    /\ [](\A c \in BagToSet(cycles) : c.pc \in {"pgrep", "restart", "start"})
    /\ []<>(out.op = "setInterval")
    /\ []<>(out.op \in WatchdogOps /\ out.body.pc = "done")

\* The copy of a recovery threw (a stable snapshot, but no live file) after
\* pgrep had timed out, and the cycle ended with the failure logged.
C14_CopyFailureCaught ==
    /\ out.op = "await pgrep"
    /\ ~out.req.pgrep.success
    /\ out.req.pgrep.output = <<"k", "i", "l", "l", "e", "d">>
    /\ Exists(files, STABLE_CONFIG_PATH)
    /\ ~Exists(files, CONFIG_PATH)
    /\ LastLog(out.body) = "Recovery failed"
    /\ out.body.pc = "done"


----------------------------------------------------------------------------
(* The order of a recovery attempt.                                        *)

\* How many times x occurs in the sequence q.
Occurrences(q, x) == Cardinality({i \in 1..Len(q) : q[i] = x})

\* C15: in one recovery attempt the live file is first kept under the
\* corrupted tag (the copy holds what the live file held, not the stable
\* snapshot), then the stable snapshot is copied over it, then restart is
\* issued, then start, then the recovery event is emitted, each at most
\* once.  start is issued whatever restart resolved to and the event is
\* emitted whatever start resolved to; a cycle whose restore did not
\* complete issues neither command and emits no event.
C15_RecoveryOrder ==
    /\ [][out'.op = "await pgrep" /\ out'.body.attempts # <<>> =>
            IF out'.body.pc = "restart"
            THEN /\ Exists(files, CONFIG_PATH) /\ Exists(files, STABLE_CONFIG_PATH)
                 /\ out'.body.corrupted = <<CorruptedName(now)>>
                 /\ files'[CorruptedName(now)] = files[CONFIG_PATH]
                 /\ files'[CONFIG_PATH] = files[STABLE_CONFIG_PATH]
                 /\ out'.body.cmds = <<PgrepCmd, "openclaw gateway restart">>
                 /\ out'.body.events = <<>>
            ELSE /\ out'.body.pc = "done"
                 /\ ~Exists(files, STABLE_CONFIG_PATH) \/ ~Exists(files, CONFIG_PATH)
                 /\ files' = files
                 /\ out'.body.cmds = <<PgrepCmd>>
                 /\ out'.body.events = <<>>]_vars
    /\ [][out'.op = "await restart" =>
            /\ out'.body.pc = "start"
            /\ out'.body.cmds = <<PgrepCmd, "openclaw gateway restart",
                                  "openclaw gateway start">>
            /\ out'.body.events = <<>>
            /\ files' = files]_vars
    /\ [][out'.op = "await start" =>
            /\ out'.body.pc = "done"
            /\ out'.body.cmds = <<PgrepCmd, "openclaw gateway restart",
                                  "openclaw gateway start">>
            /\ Len(out'.body.events) = 1
            /\ out'.body.events[1].name = "system:recovery"
            /\ out'.body.events[1].reason = out'.body.attempts[1]
            /\ files' = files]_vars
    /\ [](\A c \in BagToSet(cycles) \cup (IF out.op \in WatchdogOps THEN {out.body} ELSE {}) :
            /\ Len(c.corrupted) <= 1
            /\ Len(c.events) <= 1
            /\ \A cmd \in Range(c.cmds) : Occurrences(c.cmds, cmd) = 1
            /\ c.events # <<>> =>
                  /\ c.corrupted # <<>>
                  /\ Occurrences(c.logs, "Restored stable configuration") = 1)

\* A recovery emitted its event although `openclaw gateway start` had timed
\* out.
C15_EventAfterFailedStart ==
    /\ out.op = "await start"
    /\ ~out.req.result.success
    /\ out.req.result.output = <<"t", "i", "m", "e", "o", "u", "t">>
    /\ Len(out.body.events) = 1
    /\ out.body.corrupted # <<>>


----------------------------------------------------------------------------
(* A failure that persists.                                                *)

\* pgrep found the process: the result r of the probe passes.
ProbePasses(r) == r.success /\ Trim(r.output) # <<>>

\* C16: while no probe finds the process and the stable snapshot and the
\* live file are present, every cycle attempts the recovery when its probe
\* returns, so that a recovery attempt is followed by another one again and
\* again; a cycle makes one attempt and ends after it (its start command
\* returning ends it), whatever the commands resolved to.
C16_RetryEveryCycle ==
    /\ [][/\ out'.op = "await pgrep"
          /\ ~ProbePasses(out'.req.pgrep)
          /\ Exists(files, STABLE_CONFIG_PATH)
          /\ Exists(files, CONFIG_PATH)
          => /\ out'.body.attempts = <<"Process not running">>
             /\ out'.body.pc = "restart"]_vars
    /\ [][out'.op = "await start" =>
            /\ out'.body.pc = "done"
            /\ Len(out'.body.attempts) = 1
            /\ InFlight' = InFlight - 1]_vars
    /\ ( /\ [](out.op = "await pgrep" => ~ProbePasses(out.req.pgrep))
         /\ [](Exists(files, STABLE_CONFIG_PATH) /\ Exists(files, CONFIG_PATH))
         => []<>( /\ out.op = "await pgrep"
                  /\ out.body.attempts = <<"Process not running">>
                  /\ out.body.pc = "restart" ) )

\* A later cycle attempted the recovery again: the corrupted copy of an
\* earlier attempt is there, and this attempt made its own.
C16_SecondAttempt ==
    /\ out.op = "await pgrep"
    /\ ~ProbePasses(out.req.pgrep)
    /\ out.body.attempts = <<"Process not running">>
    /\ out.body.pc = "restart"
    /\ Cardinality(CorruptedSet(files)) = 2


----------------------------------------------------------------------------
(* The configuration probe.                                                *)

\* C17: in a cycle whose liveness probe passes, the recovery is attempted,
\* with reason "Invalid Config JSON", exactly when the live file is missing
\* or does not parse.  A live file that parses is reported healthy, whether
\* or not it passes validateConfig: the cycle ends with no attempt, no file
\* changed, no command besides the probe and no event.
C17_ParseOnlyProbe ==
    [][out'.op = "await pgrep" /\ ProbePasses(out'.req.pgrep) =>
         /\ out'.body.probedConfig
         /\ out'.body.attempts \in {<<>>, <<"Invalid Config JSON">>}
         /\ out'.body.attempts = <<"Invalid Config JSON">>
              <=> ~(Exists(files, CONFIG_PATH) /\ files[CONFIG_PATH].layout # "malformed")
         /\ out'.body.attempts = <<>> =>
              /\ LastLog(out'.body) = "System healthy."
              /\ out'.body.pc = "done"
              /\ files' = files
              /\ out'.body.cmds = <<PgrepCmd>>
              /\ out'.body.events = <<>>
              /\ out'.body.corrupted = <<>>]_vars

\* A live file that parses and fails validateConfig (it has no `agents`)
\* was reported healthy.
C17_InvalidReportedHealthy ==
    /\ out.op = "await pgrep"
    /\ ProbePasses(out.req.pgrep)
    /\ LiveParses(files)
    /\ ~validateConfig(Parse(files[CONFIG_PATH]).val).valid
    /\ Get(Parse(files[CONFIG_PATH]).val, "agents") = Undefined
    /\ LastLog(out.body) = "System healthy."
    /\ out.body.attempts = <<>>


----------------------------------------------------------------------------
(* Backups and corrupted copies.                                           *)

\* The files of S hold in gs what they hold in fs.
SameContent(fs, gs, S) == \A n \in S : n \in DOMAIN gs /\ gs[n] = fs[n]

----------------------------------------------------------------------------
(* Follow-processes.                                                       *)

\* The connected observers whose connection started streaming.
Streaming(socks) == {id \in DOMAIN socks : socks[id].streaming}

SocketOps == {"connection", "disconnect", "tail stdout", "tail stderr"}

\* C19: the follow-processes that run are one for each connected observer
\* that started streaming, and none besides.  A connection that finds a log
\* spawns one for its socket, a disconnect ends the one of its socket; a
\* step of one observer leaves the other observers' sockets and
\* follow-processes, the watchdog's cycles and the files as they are, and a
\* step of the watchdog leaves the sockets and follow-processes as they
\* are.
C19_OneTailPerObserver ==
    /\ [](tails = SetToBag(Streaming(sockets)))
    /\ [][out'.op \in SocketOps =>
            /\ \A other \in SocketIds \ {out'.req.id} :
                 /\ other \in DOMAIN sockets <=> other \in DOMAIN sockets'
                 /\ other \in DOMAIN sockets => sockets'[other] = sockets[other]
                 /\ CopiesIn(other, tails') = CopiesIn(other, tails)
            /\ UNCHANGED <<files, cycles, requests>>]_vars
    /\ [][out'.op = "connection" =>
            CopiesIn(out'.req.id, tails') =
              IF out'.body.emits # <<>> THEN 1 ELSE 0]_vars
    /\ [][out'.op = "disconnect" =>
            /\ out'.req.id \notin DOMAIN sockets'
            /\ CopiesIn(out'.req.id, tails') = 0]_vars
    /\ [][out'.op \in WatchdogOps => UNCHANGED <<sockets, tails>>]_vars

\* One streaming observer disconnected while another one streams and a
\* watchdog cycle is in flight: the other one's follow-process runs on.
C19_OtherTailSurvives ==
    /\ out.op = "disconnect"
    /\ out.req.id = 1
    /\ DOMAIN sockets = {2}
    /\ sockets[2].streaming
    /\ BagToSet(tails) = {2}
    /\ cycles # EmptyBag


----------------------------------------------------------------------------
(* The stable snapshot.                                                    *)

\* C20: no step creates, changes or deletes the stable snapshot: it is
\* there after a step exactly if it was there before, with the same text.
C20_StableUntouched ==
    [][/\ Exists(files', STABLE_CONFIG_PATH) <=> Exists(files, STABLE_CONFIG_PATH)
       /\ Exists(files, STABLE_CONFIG_PATH) =>
            files'[STABLE_CONFIG_PATH] = files[STABLE_CONFIG_PATH]]_vars

\* A recovery replaced a live file that differed from the stable snapshot
\* and ran to its end; the snapshot holds its text from the start.
C20_StableAfterRecovery ==
    /\ out.op = "await start"
    /\ out.body.events # <<>>
    /\ Exists(files, STABLE_CONFIG_PATH)
    /\ files[STABLE_CONFIG_PATH] = ByHand(DocB)
    /\ files[CONFIG_PATH] = files[STABLE_CONFIG_PATH]
    /\ \E n \in CorruptedSet(files) : files[n] # files[STABLE_CONFIG_PATH]

====
